---- MODULE Spec2Model ----
(***************************************************************************)
(* Model of src/qt/peertablemodel.cpp: the peer table's local cache        *)
(* (PeerTablePriv), its comparator (NodeLessThan) and the PeerTableModel   *)
(* operations that refresh, sort and read it.  The GUI thread runs         *)
(* refresh()/sort() one statement group at a time (pc names the source     *)
(* line about to execute); a network thread owns the registry vNodes and   *)
(* changes it under cs_vNodes.                                             *)
(***************************************************************************)
EXTENDS Integers, Sequences, FiniteSets, TLC

\* ------------------------------------------------------------------ bounds
\* Largest number of connected peers the registry holds.
MaxPeers == 2

\* ------------------------------------------------------- program constants
\* enum ColumnIndex { Address = 0, Subversion = 1, Ping = 2 }; -1 is "unsorted".
Address == 0
Subversion == 1
Ping == 2
Unsorted == -1
\* Qt::SortOrder
AscendingOrder == 0
DescendingOrder == 1
\* getRowByNodeId's "not found"
NotFound == -1

Columns == {Unsorted, Address, Subversion, Ping}
SortOrders == {AscendingOrder, DescendingOrder}

\* ------------------------------------------------------------ value domains
NodeIds == {1, 2, 3}

\* Strings are sequences of character codes: "Z" = <<90>>, "a" = <<97>>,
\* "b" = <<98>>.  The two profiles order differently under each column:
\* by address "a" < "b", by subversion "Z" < "a" (byte order), by ping 1 < 2.
StatProfiles ==
    { [addrName |-> <<98>>, cleanSubVer |-> <<90>>, dPingTime |-> 1],
      [addrName |-> <<97>>, cleanSubVer |-> <<97>>, dPingTime |-> 2] }

\* CNode as the cache sees it: the fields copyStats reads.
MkNode(id, p) ==
    [nodeid |-> id, addrName |-> p.addrName, cleanSubVer |-> p.cleanSubVer,
     dPingTime |-> p.dPingTime]

\* Values a reader can get back that are not records of the cache.
NullPtr == [null |-> TRUE]
OutOfRange == [undefined |-> TRUE]
NoObs == [op |-> "none"]
NoSnapshot == [none |-> TRUE]
EmptyMap == [k \in {} |-> 0]

VARIABLES
    vNodes,           \* registry: sequence of nodes (net.h vNodes)
    csOwner,          \* holder of cs_vNodes: "none", "net" or "gui"
    cachedNodeStats,  \* PeerTablePriv::cachedNodeStats
    mapNodeRows,      \* PeerTablePriv::mapNodeRows
    sortColumn,       \* PeerTablePriv::sortColumn
    sortOrder,        \* PeerTablePriv::sortOrder
    pc,               \* GUI thread: "idle" or the line about to execute
    lockNodes,        \* refreshPeers' local lockNodes (TRY_LOCK result)
    it,               \* position of the running BOOST_FOREACH
    row,              \* refreshPeers' local row
    emitted,          \* last signal emitted by the model
    retval,           \* what the last refreshPeers() call returned
    obs,              \* last read made by the view through the read API
    entryState,       \* history: the cache when the running refresh() was entered,
                      \* kept until that call acquires cs_vNodes or returns
    acquired,         \* history: vNodes when cs_vNodes was last acquired by refreshPeers
    populated         \* history: a refreshPeers call has run to its end with the lock

vars == <<vNodes, csOwner, cachedNodeStats, mapNodeRows, sortColumn, sortOrder,
          pc, lockNodes, it, row, emitted, retval, obs, entryState, acquired,
          populated>>

cacheVars == <<cachedNodeStats, mapNodeRows, sortColumn, sortOrder>>
netVars == <<vNodes, csOwner>>
localVars == <<lockNodes, it, row>>

\* ------------------------------------------------------------ pure helpers
\* std::string::compare: sign of the first differing character, else of the lengths.
RECURSIVE StrCompare(_, _)
StrCompare(a, b) ==
    IF a = <<>> /\ b = <<>> THEN 0
    ELSE IF a = <<>> THEN -1
    ELSE IF b = <<>> THEN 1
    ELSE IF Head(a) < Head(b) THEN -1
    ELSE IF Head(a) > Head(b) THEN 1
    ELSE StrCompare(Tail(a), Tail(b))

\* Variant of NodeLessThan: the order is ignored, operands are never swapped.
NodeLessThanIgnoresOrder(column, order, left, right) ==
    CASE column = Address -> StrCompare(left.addrName, right.addrName) < 0
      [] column = Subversion -> StrCompare(left.cleanSubVer, right.cleanSubVer) < 0
      [] column = Ping -> left.dPingTime < right.dPingTime
      [] OTHER -> FALSE

\* Variant of NodeLessThan: descending order negates the ascending result
\* instead of swapping the operands.
NodeLessThanNegates(column, order, left, right) ==
    LET asc == CASE column = Address -> StrCompare(left.addrName, right.addrName) < 0
                 [] column = Subversion -> StrCompare(left.cleanSubVer, right.cleanSubVer) < 0
                 [] column = Ping -> left.dPingTime < right.dPingTime
                 [] OTHER -> FALSE
    IN  IF order = DescendingOrder /\ column \in {Address, Subversion, Ping}
        THEN ~asc ELSE asc

\* NodeLessThan(column, order)::operator()(left, right)
NodeLessThan(column, order, left, right) ==
    LET pLeft == IF order = DescendingOrder THEN right ELSE left
        pRight == IF order = DescendingOrder THEN left ELSE right
    IN  CASE column = Address -> StrCompare(pLeft.addrName, pRight.addrName) < 0
          [] column = Subversion -> StrCompare(pLeft.cleanSubVer, pRight.cleanSubVer) < 0
          [] column = Ping -> pLeft.dPingTime < pRight.dPingTime
          [] OTHER -> FALSE

\* Merge step of a stable merge sort: the right run's head goes first only
\* when it is strictly less than the left run's head.
RECURSIVE Merge(_, _, _, _)
Merge(column, order, l, r) ==
    IF l = <<>> THEN r
    ELSE IF r = <<>> THEN l
    ELSE IF NodeLessThan(column, order, Head(r), Head(l))
         THEN <<Head(r)>> \o Merge(column, order, l, Tail(r))
         ELSE <<Head(l)>> \o Merge(column, order, Tail(l), r)

\* qStableSort(begin, end, NodeLessThan(column, order))
RECURSIVE qStableSort(_, _, _)
qStableSort(s, column, order) ==
    IF Len(s) <= 1 THEN s
    ELSE LET mid == Len(s) \div 2
         IN  Merge(column, order,
                   qStableSort(SubSeq(s, 1, mid), column, order),
                   qStableSort(SubSeq(s, mid + 1, Len(s)), column, order))

\* std::map::insert: an existing key keeps its value.
MapInsert(m, k, v) ==
    IF k \in DOMAIN m THEN m
    ELSE [x \in DOMAIN m \cup {k} |-> IF x = k THEN v ELSE m[x]]

\* Element access into a QList; reading past the ends is out of range.
ElemAt(s, idx) == IF idx >= 0 /\ idx < Len(s) THEN s[idx + 1] ELSE OutOfRange

\* PeerTablePriv::size()
size == Len(cachedNodeStats)

\* Variant of PrivIndex: the upper bound test is idx <= size.
PrivIndexOffByOne(idx) ==
    IF idx >= 0 /\ idx <= Len(cachedNodeStats)
    THEN ElemAt(cachedNodeStats, idx)
    ELSE NullPtr

\* PeerTablePriv::index(idx)
PrivIndex(idx) ==
    IF idx >= 0 /\ idx < Len(cachedNodeStats)
    THEN ElemAt(cachedNodeStats, idx)
    ELSE NullPtr

\* PeerTableModel::getRowByNodeId(nodeid)
getRowByNodeId(nodeid) ==
    IF nodeid \notin DOMAIN mapNodeRows THEN NotFound ELSE mapNodeRows[nodeid]

NodeIdsOf(s) == {s[i].nodeid : i \in 1..Len(s)}

\* CNode::copyStats(stats): the fields the table shows, copied field by field.
copyStats(node) ==
    [nodeid |-> node.nodeid, addrName |-> node.addrName,
     cleanSubVer |-> node.cleanSubVer, dPingTime |-> node.dPingTime]

\* The cache as a reader or a caller can tell it apart.
CacheState ==
    [records |-> cachedNodeStats, index |-> mapNodeRows,
     column |-> sortColumn, order |-> sortOrder]

\* The GUI thread serves the view's reads from its event loop and from the
\* slots connected to the two layout signals, while they are being emitted.
ReaderCanRun == pc \in {"idle", "L205", "L207"}

\* -------------------------------------------------------------------- Init
\* PeerTableModel::PeerTableModel up to its call of refresh(): priv is a fresh
\* PeerTablePriv (value-initialised: empty list and map, sortOrder 0),
\* sortColumn = -1, and refresh() is entered.
Init ==
    /\ vNodes = <<>>
    /\ csOwner = "none"
    /\ cachedNodeStats = <<>>
    /\ mapNodeRows = EmptyMap
    /\ sortColumn = Unsorted
    /\ sortOrder = AscendingOrder
    /\ pc = "L205"
    /\ lockNodes = FALSE
    /\ it = 0
    /\ row = 0
    /\ emitted = "none"
    /\ retval = "none"
    /\ obs = NoObs
    /\ entryState = [records |-> <<>>, index |-> EmptyMap,
                     column |-> Unsorted, order |-> AscendingOrder]
    /\ acquired = <<>>
    /\ populated = FALSE

\* ------------------------------------------------- registry (network thread)
\* LOCK(cs_vNodes) taken by the network thread.
NetLock ==
    /\ csOwner = "none"
    /\ csOwner' = "net"
    /\ UNCHANGED <<vNodes, cacheVars, pc, localVars, emitted, retval, obs,
                   entryState, acquired, populated>>

NetUnlock ==
    /\ csOwner = "net"
    /\ csOwner' = "none"
    /\ UNCHANGED <<vNodes, cacheVars, pc, localVars, emitted, retval, obs,
                   entryState, acquired, populated>>

\* A peer connects: appended to vNodes with a fresh id; ids are handed out in
\* increasing order, so every connected peer's id is below the new one.
NetConnect(id, p) ==
    /\ csOwner = "net"
    /\ Len(vNodes) < MaxPeers
    /\ \A n \in NodeIdsOf(vNodes) : n < id
    /\ vNodes' = Append(vNodes, MkNode(id, p))
    /\ UNCHANGED <<csOwner, cacheVars, pc, localVars, emitted, retval, obs,
                   entryState, acquired, populated>>

\* A peer disconnects: removed from vNodes.
NetDisconnect(i) ==
    /\ csOwner = "net"
    /\ i \in 1..Len(vNodes)
    /\ vNodes' = SubSeq(vNodes, 1, i - 1) \o SubSeq(vNodes, i + 1, Len(vNodes))
    /\ UNCHANGED <<csOwner, cacheVars, pc, localVars, emitted, retval, obs,
                   entryState, acquired, populated>>

\* A connected peer's address name, subversion and ping time change.
NetUpdateStats(i, p) ==
    /\ csOwner = "net"
    /\ i \in 1..Len(vNodes)
    /\ vNodes[i] # MkNode(vNodes[i].nodeid, p)
    /\ vNodes' = [vNodes EXCEPT ![i] = MkNode(vNodes[i].nodeid, p)]
    /\ UNCHANGED <<csOwner, cacheVars, pc, localVars, emitted, retval, obs,
                   entryState, acquired, populated>>

\* ------------------------------------------------------ GUI thread: triggers
\* QTimer timeout -> PeerTableModel::refresh() (connect at line 112).
TimerTick ==
    /\ pc = "idle"
    /\ pc' = "L205"
    /\ entryState' = CacheState
    /\ obs' = NoObs
    /\ UNCHANGED <<netVars, cacheVars, localVars, emitted, retval, acquired, populated>>

\* Variant of SortCall: the policy is stored and the cached records are
\* re-sorted and re-indexed in place, refresh() is not called.
SortCallResortsCache(column, order) ==
    LET sorted == IF column >= 0
                  THEN qStableSort(cachedNodeStats, column, order)
                  ELSE cachedNodeStats
    IN  /\ pc = "idle"
        /\ sortColumn' = column
        /\ sortOrder' = order
        /\ cachedNodeStats' = sorted
        /\ mapNodeRows' = [x \in NodeIdsOf(sorted) |->
                             (CHOOSE i \in 1..Len(sorted) : sorted[i].nodeid = x) - 1]
        /\ obs' = NoObs
        /\ UNCHANGED <<netVars, pc, localVars, emitted, retval, entryState, acquired,
                       populated>>

\* PeerTableModel::sort(column, order): store the policy, then refresh().
SortCall(column, order) ==
    /\ pc = "idle"
    /\ sortColumn' = column
    /\ sortOrder' = order
    /\ pc' = "L205"
    /\ entryState' = [records |-> cachedNodeStats, index |-> mapNodeRows,
                      column |-> column, order |-> order]
    /\ obs' = NoObs
    /\ UNCHANGED <<netVars, cachedNodeStats, mapNodeRows, localVars, emitted, retval,
                   acquired, populated>>

\* ------------------------------------------- PeerTableModel::refresh, line 205
\* Variant of EmitLayoutAboutToBeChanged: refreshPeers is entered without the
\* signal having been emitted.
EnterWithoutEmit ==
    /\ pc = "L205"
    /\ pc' = "L52"
    /\ obs' = NoObs
    /\ UNCHANGED <<netVars, cacheVars, localVars, emitted, retval, entryState, acquired,
                   populated>>

EmitLayoutAboutToBeChanged ==
    /\ pc = "L205"
    /\ emitted' = "layoutAboutToBeChanged"
    /\ pc' = "L52"
    /\ obs' = NoObs
    /\ UNCHANGED <<netVars, cacheVars, localVars, retval, entryState, acquired, populated>>

\* ------------------------------------------------ PeerTablePriv::refreshPeers
\* Variant of TryLock: the cache is cleared before lockNodes is tested.
TryLockClearsFirst ==
    /\ pc = "L52"
    /\ cachedNodeStats' = <<>>
    /\ IF csOwner = "none"
       THEN /\ csOwner' = "gui"
            /\ lockNodes' = TRUE
            /\ acquired' = vNodes
            /\ entryState' = NoSnapshot
            /\ pc' = "L59"
            /\ UNCHANGED retval
       ELSE /\ lockNodes' = FALSE
            /\ pc' = "L207"
            /\ retval' = "void"
            /\ UNCHANGED <<csOwner, acquired, entryState>>
    /\ UNCHANGED <<vNodes, mapNodeRows, sortColumn, sortOrder, it, row, emitted, obs,
                   populated>>

\* Variant of TryLock: the test is if (lockNodes) return; a free lock is taken
\* and given back at once, a busy one lets the copy go ahead.
TryLockInverted ==
    /\ pc = "L52"
    /\ IF csOwner = "none"
       THEN /\ lockNodes' = TRUE
            /\ pc' = "L207"
            /\ retval' = "void"
            /\ UNCHANGED <<csOwner, acquired, entryState>>
       ELSE /\ lockNodes' = FALSE
            /\ acquired' = vNodes
            /\ entryState' = NoSnapshot
            /\ pc' = "L59"
            /\ UNCHANGED <<csOwner, retval>>
    /\ UNCHANGED <<vNodes, cacheVars, it, row, emitted, obs, populated>>

\* Variant of TryLock: LOCK(cs_vNodes), which waits until the lock is free.
TryLockBlocks ==
    /\ pc = "L52"
    /\ csOwner = "none"
    /\ csOwner' = "gui"
    /\ lockNodes' = TRUE
    /\ acquired' = vNodes
    /\ entryState' = NoSnapshot
    /\ pc' = "L59"
    /\ UNCHANGED <<vNodes, cacheVars, it, row, emitted, retval, obs, populated>>

\* TRY_LOCK(cs_vNodes, lockNodes); if (!lockNodes) return;
TryLock ==
    /\ pc = "L52"
    /\ IF csOwner = "none"
       THEN /\ csOwner' = "gui"
            /\ lockNodes' = TRUE
            /\ acquired' = vNodes
            /\ entryState' = NoSnapshot
            /\ pc' = "L59"
            /\ UNCHANGED retval
       ELSE /\ lockNodes' = FALSE
            /\ pc' = "L207"
            /\ retval' = "void"
            /\ UNCHANGED <<csOwner, acquired, entryState>>
    /\ UNCHANGED <<vNodes, cacheVars, it, row, emitted, obs, populated>>

\* cachedNodeStats.clear();
ClearCache ==
    /\ pc = "L59"
    /\ cachedNodeStats' = <<>>
    /\ it' = 0
    /\ pc' = "L63"
    /\ UNCHANGED <<netVars, mapNodeRows, sortColumn, sortOrder, lockNodes, row,
                   emitted, retval, obs, entryState, acquired, populated>>

\* Variant of CopyNode: the copied stats are prepended.
CopyNodePrepends ==
    /\ pc = "L63"
    /\ it < Len(vNodes)
    /\ cachedNodeStats' = <<copyStats(vNodes[it + 1])>> \o cachedNodeStats
    /\ it' = it + 1
    /\ UNCHANGED <<netVars, mapNodeRows, sortColumn, sortOrder, pc, lockNodes,
                   row, emitted, retval, obs, entryState, acquired, populated>>

\* Variant of CopyNode: every pass copies the stats of the first node.
CopyNodeFirstOnly ==
    /\ pc = "L63"
    /\ it < Len(vNodes)
    /\ cachedNodeStats' = Append(cachedNodeStats, copyStats(vNodes[1]))
    /\ it' = it + 1
    /\ UNCHANGED <<netVars, mapNodeRows, sortColumn, sortOrder, pc, lockNodes,
                   row, emitted, retval, obs, entryState, acquired, populated>>

\* One pass of BOOST_FOREACH(CNode* pnode, vNodes): copyStats and append.
CopyNode ==
    /\ pc = "L63"
    /\ it < Len(vNodes)
    /\ cachedNodeStats' = Append(cachedNodeStats, copyStats(vNodes[it + 1]))
    /\ it' = it + 1
    /\ UNCHANGED <<netVars, mapNodeRows, sortColumn, sortOrder, pc, lockNodes,
                   row, emitted, retval, obs, entryState, acquired, populated>>

\* Variant of SortCache: refreshPeers returns after the sort, the index map
\* is not rebuilt.
SortCacheThenReturn ==
    /\ pc = "L63"
    /\ it >= Len(vNodes)
    /\ cachedNodeStats' =
         IF sortColumn >= 0
         THEN qStableSort(cachedNodeStats, sortColumn, sortOrder)
         ELSE cachedNodeStats
    /\ it' = 0
    /\ csOwner' = "none"
    /\ retval' = "void"
    /\ pc' = "L207"
    /\ populated' = TRUE
    /\ UNCHANGED <<vNodes, mapNodeRows, sortColumn, sortOrder, lockNodes, row,
                   emitted, obs, entryState, acquired>>

\* Loop finished; if (sortColumn >= 0) qStableSort(...).
SortCache ==
    /\ pc = "L63"
    /\ it >= Len(vNodes)
    /\ cachedNodeStats' =
         IF sortColumn >= 0
         THEN qStableSort(cachedNodeStats, sortColumn, sortOrder)
         ELSE cachedNodeStats
    /\ it' = 0
    /\ pc' = "L76"
    /\ UNCHANGED <<netVars, mapNodeRows, sortColumn, sortOrder, lockNodes, row,
                   emitted, retval, obs, entryState, acquired, populated>>

\* Variant of ClearMap: the map is not cleared before it is filled.
ClearMapKeepsEntries ==
    /\ pc = "L76"
    /\ row' = 0
    /\ it' = 0
    /\ pc' = "L78"
    /\ UNCHANGED <<netVars, cacheVars, lockNodes,
                   emitted, retval, obs, entryState, acquired, populated>>

\* mapNodeRows.clear(); int row = 0;
ClearMap ==
    /\ pc = "L76"
    /\ mapNodeRows' = EmptyMap
    /\ row' = 0
    /\ it' = 0
    /\ pc' = "L78"
    /\ UNCHANGED <<netVars, cachedNodeStats, sortColumn, sortOrder, lockNodes,
                   emitted, retval, obs, entryState, acquired, populated>>

\* Variant of InsertRow: insert(nodeid, ++row).
InsertRowPreIncrement ==
    /\ pc = "L78"
    /\ it < Len(cachedNodeStats)
    /\ mapNodeRows' = MapInsert(mapNodeRows, cachedNodeStats[it + 1].nodeid, row + 1)
    /\ row' = row + 1
    /\ it' = it + 1
    /\ UNCHANGED <<netVars, cachedNodeStats, sortColumn, sortOrder, pc,
                   lockNodes, emitted, retval, obs, entryState, acquired, populated>>

\* One pass of BOOST_FOREACH(CNodeStats &stats, cachedNodeStats): insert(nodeid, row++).
InsertRow ==
    /\ pc = "L78"
    /\ it < Len(cachedNodeStats)
    /\ mapNodeRows' = MapInsert(mapNodeRows, cachedNodeStats[it + 1].nodeid, row)
    /\ row' = row + 1
    /\ it' = it + 1
    /\ UNCHANGED <<netVars, cachedNodeStats, sortColumn, sortOrder, pc,
                   lockNodes, emitted, retval, obs, entryState, acquired, populated>>

\* Variant of ReturnUnlock: refreshPeers reports that it refreshed.
ReturnUnlockReportsRefreshed ==
    /\ pc = "L78"
    /\ it >= Len(cachedNodeStats)
    /\ csOwner' = "none"
    /\ retval' = "refreshed"
    /\ it' = 0
    /\ row' = 0
    /\ pc' = "L207"
    /\ populated' = TRUE
    /\ UNCHANGED <<vNodes, cacheVars, lockNodes, emitted, obs, entryState,
                   acquired>>

\* Loop finished; refreshPeers returns and lockNodes goes out of scope.
\* Variant of ReturnUnlock: lockNodes outlives the call, so the lock is kept.
ReturnUnlockKeepsLock ==
    /\ pc = "L78"
    /\ it >= Len(cachedNodeStats)
    /\ retval' = "void"
    /\ it' = 0
    /\ row' = 0
    /\ pc' = "L207"
    /\ populated' = TRUE
    /\ UNCHANGED <<vNodes, csOwner, cacheVars, lockNodes, emitted, obs,
                   entryState, acquired>>

ReturnUnlock ==
    /\ pc = "L78"
    /\ it >= Len(cachedNodeStats)
    /\ csOwner' = "none"
    /\ retval' = "void"
    /\ it' = 0
    /\ row' = 0
    /\ pc' = "L207"
    /\ populated' = TRUE
    /\ UNCHANGED <<vNodes, cacheVars, lockNodes, emitted, obs, entryState,
                   acquired>>

\* ------------------------------------------- PeerTableModel::refresh, line 207
EmitLayoutChanged ==
    /\ pc = "L207"
    /\ emitted' = "layoutChanged"
    /\ pc' = "idle"
    /\ lockNodes' = FALSE
    /\ entryState' = NoSnapshot
    /\ obs' = NoObs
    /\ UNCHANGED <<netVars, cacheVars, it, row, retval, acquired, populated>>

\* ------------------------------------------------------- the view's reads
\* PeerTableModel::rowCount -> PeerTablePriv::size()
ReadSize ==
    /\ ReaderCanRun
    /\ obs' = [op |-> "size", res |-> size]
    /\ UNCHANGED <<netVars, cacheVars, pc, localVars, emitted, retval,
                   entryState, acquired, populated>>

\* Variant of ReadIndex: the cache keeps a reference to the registry's node,
\* so the read shows the node's present stats while it is connected.
ReadIndexThroughRegistry(idx) ==
    LET rec == PrivIndex(idx)
        live == IF rec = NullPtr THEN {}
                ELSE {i \in 1..Len(vNodes) : vNodes[i].nodeid = rec.nodeid}
    IN  /\ ReaderCanRun
        /\ obs' = [op |-> "index", arg |-> idx,
                   res |-> IF live = {} THEN rec
                           ELSE copyStats(vNodes[CHOOSE i \in live : TRUE])]
        /\ UNCHANGED <<netVars, cacheVars, pc, localVars, emitted, retval,
                       entryState, acquired, populated>>

\* PeerTableModel::getNodeStats(idx) / index(row, ...) -> PeerTablePriv::index(idx)
ReadIndex(idx) ==
    /\ ReaderCanRun
    /\ obs' = [op |-> "index", arg |-> idx, res |-> PrivIndex(idx)]
    /\ UNCHANGED <<netVars, cacheVars, pc, localVars, emitted, retval,
                   entryState, acquired, populated>>

\* PeerTableModel::getRowByNodeId(nodeid)
ReadRow(nodeid) ==
    /\ ReaderCanRun
    /\ obs' = [op |-> "getRowByNodeId", arg |-> nodeid, res |-> getRowByNodeId(nodeid)]
    /\ UNCHANGED <<netVars, cacheVars, pc, localVars, emitted, retval,
                   entryState, acquired, populated>>

\* Row arguments the view passes: one below the first row up to past the last.
RowArgs == -1..MaxPeers

Next ==
    \/ NetLock
    \/ NetUnlock
    \/ \E id \in NodeIds, p \in StatProfiles : NetConnect(id, p)
    \/ \E i \in 1..MaxPeers : NetDisconnect(i)
    \/ \E i \in 1..MaxPeers, p \in StatProfiles : NetUpdateStats(i, p)
    \/ TimerTick
    \/ \E column \in Columns, order \in SortOrders : SortCall(column, order)
    \/ EmitLayoutAboutToBeChanged
    \/ TryLock
    \/ ClearCache
    \/ CopyNode
    \/ SortCache
    \/ ClearMap
    \/ InsertRow
    \/ ReturnUnlock
    \/ EmitLayoutChanged
    \/ ReadSize
    \/ \E idx \in RowArgs : ReadIndex(idx)
    \/ \E nodeid \in NodeIds : ReadRow(nodeid)

Spec == Init /\ [][Next]_vars

\* The statements of a running refresh(): the GUI thread, once in refresh(),
\* goes on executing them (none of them waits).
GuiStep ==
    \/ EmitLayoutAboutToBeChanged
    \/ TryLock
    \/ ClearCache
    \/ CopyNode
    \/ SortCache
    \/ ClearMap
    \/ InsertRow
    \/ ReturnUnlock
    \/ EmitLayoutChanged

\* The registry, the triggers and the refresh itself, without the view's reads.
FairNext ==
    \/ NetLock
    \/ NetUnlock
    \/ \E id \in NodeIds, p \in StatProfiles : NetConnect(id, p)
    \/ \E i \in 1..MaxPeers : NetDisconnect(i)
    \/ \E i \in 1..MaxPeers, p \in StatProfiles : NetUpdateStats(i, p)
    \/ TimerTick
    \/ \E column \in Columns, order \in SortOrders : SortCall(column, order)
    \/ GuiStep

FairSpec == Init /\ [][FairNext]_vars /\ WF_vars(GuiStep)

\* ================================================================== claims
\* ------------------------------------------------------- shared vocabulary
Range(s) == {s[i] : i \in 1..Len(s)}
Count(s, x) == Cardinality({i \in 1..Len(s) : s[i] = x})
\* s and t hold the same elements the same number of times.
IsPermutation(s, t) ==
    /\ Len(s) = Len(t)
    /\ \A x \in Range(s) \cup Range(t) : Count(s, x) = Count(t, x)
\* idx maps exactly the node ids of recs, each to a row that holds it.
IsIndexOf(idx, recs) ==
    /\ DOMAIN idx = NodeIdsOf(recs)
    /\ \A i \in 1..Len(recs) :
         /\ idx[recs[i].nodeid] \in 0..(Len(recs) - 1)
         /\ recs[idx[recs[i].nodeid] + 1].nodeid = recs[i].nodeid
\* recs is what a refresh under the policy (column, order) makes of registry reg.
IsSnapshotUnder(recs, reg, column, order) ==
    recs = IF column >= 0 THEN qStableSort(reg, column, order) ELSE reg
\* The pair (records, index) is a whole snapshot of the registry contents reg.
IsWholeSnapshot(recs, idx, reg) ==
    /\ IsPermutation(recs, reg)
    /\ \E column \in Columns, order \in SortOrders : IsSnapshotUnder(recs, reg, column, order)
    /\ IsIndexOf(idx, recs)
RefreshReturned == pc = "L207"
RefreshedNow == pc = "L207" /\ lockNodes
SkippedNow == pc = "L207" /\ ~lockNodes

\* C1: a refresh that finds cs_vNodes held elsewhere returns with
\* cachedNodeStats, mapNodeRows, sortColumn and sortOrder equal to what they
\* were when the call was entered.
C1_SkippedRefreshLeavesCache ==
    SkippedNow => (entryState # NoSnapshot /\ CacheState = entryState)

\* C1 witness: a skipped refresh over a populated cache that no longer matches
\* the registry.
C1_Witness ==
    /\ SkippedNow
    /\ csOwner = "net"
    /\ Len(cachedNodeStats) = 2
    /\ sortColumn = Address
    /\ vNodes # acquired

C3_SnapshotAtomicity ==
    pc = "idle" =>
        \A x \in NodeIdsOf(cachedNodeStats) :
            LET r == getRowByNodeId(x)
                rec == PrivIndex(r)
            IN  /\ r \in 0..(size - 1)
                /\ rec \notin {NullPtr, OutOfRange}
                /\ rec.nodeid = x

\* C3 witness: idle with two records that a sort has put in an order other
\* than the registry's, after a later refresh was skipped.
C3_Witness ==
    /\ pc = "idle"
    /\ Len(cachedNodeStats) = 2
    /\ cachedNodeStats # acquired
    /\ getRowByNodeId(cachedNodeStats[2].nodeid) = 1
    /\ sortColumn = Unsorted

\* C4: whenever a reader can run, the records and index it sees are either the
\* pair the running refresh was entered with or a whole snapshot of the
\* registry as last acquired; at the layoutAboutToBeChanged emission it is the
\* former, after a successful refreshPeers the latter.
C4_NoTornSnapshot ==
    ReaderCanRun =>
        /\ \/ /\ entryState # NoSnapshot
              /\ cachedNodeStats = entryState.records
              /\ mapNodeRows = entryState.index
           \/ IsWholeSnapshot(cachedNodeStats, mapNodeRows, acquired)
        /\ pc = "L205" => entryState # NoSnapshot
        /\ RefreshedNow =>
             /\ IsSnapshotUnder(cachedNodeStats, acquired, sortColumn, sortOrder)
             /\ IsIndexOf(mapNodeRows, cachedNodeStats)

\* C4 witness: a slot of layoutChanged reads a row of a two-record snapshot
\* that the refresh has just built in sorted order.
C4_Witness ==
    /\ RefreshedNow
    /\ obs.op = "index"
    /\ Len(cachedNodeStats) = 2
    /\ obs.res = cachedNodeStats[2]
    /\ cachedNodeStats # acquired

\* ------------------------------------------- ordering, stated independently
\* a is lexicographically before b: they agree on a prefix after which a ends
\* and b goes on, or a has the smaller character.
LexLess(a, b) ==
    \E k \in 0..Len(a) :
        /\ k <= Len(b)
        /\ \A i \in 1..k : a[i] = b[i]
        /\ \/ k = Len(a) /\ k < Len(b)
           \/ k < Len(a) /\ k < Len(b) /\ a[k + 1] < b[k + 1]
\* a's key under column is below b's.
KeyLess(column, a, b) ==
    CASE column = Address -> LexLess(a.addrName, b.addrName)
      [] column = Subversion -> LexLess(a.cleanSubVer, b.cleanSubVer)
      [] column = Ping -> a.dPingTime < b.dPingTime
      [] OTHER -> FALSE
KeyEqual(column, a, b) == ~KeyLess(column, a, b) /\ ~KeyLess(column, b, a)
\* recs is non-decreasing (Ascending) or non-increasing (Descending) by key.
OrderedBy(recs, column, order) ==
    \A i, j \in 1..Len(recs) :
        i < j => IF order = AscendingOrder
                 THEN ~KeyLess(column, recs[j], recs[i])
                 ELSE ~KeyLess(column, recs[i], recs[j])
IdsOf(s) == [i \in 1..Len(s) |-> s[i].nodeid]
AddrsOf(s) == [i \in 1..Len(s) |-> s[i].addrName]
\* Rows of recs that hold node id x.
RowsOf(recs, x) == {i \in 1..Len(recs) : recs[i].nodeid = x}

\* C5: after a successful refresh with an active sort column, records is a
\* permutation of the registry as acquired, non-decreasing by the column's key
\* for Ascending and non-increasing for Descending; peers [1:"b", 2:"a"] by
\* Address give [2, 1] with rows 1 and 0 when ascending and [1, 2] when descending.
C5_SortedPermutation ==
    (RefreshedNow /\ sortColumn \in {Address, Subversion, Ping}) =>
        /\ IsPermutation(cachedNodeStats, acquired)
        /\ OrderedBy(cachedNodeStats, sortColumn, sortOrder)
        /\ (/\ sortColumn = Address
            /\ IdsOf(acquired) = <<1, 2>>
            /\ AddrsOf(acquired) = << <<98>>, <<97>> >>) =>
               IF sortOrder = AscendingOrder
               THEN /\ IdsOf(cachedNodeStats) = <<2, 1>>
                    /\ getRowByNodeId(1) = 1
                    /\ getRowByNodeId(2) = 0
               ELSE IdsOf(cachedNodeStats) = <<1, 2>>

\* C5 witness: the scenario's registry refreshed by Address, descending.
C5_Witness ==
    /\ RefreshedNow
    /\ sortColumn = Address
    /\ sortOrder = DescendingOrder
    /\ IdsOf(acquired) = <<1, 2>>
    /\ AddrsOf(acquired) = << <<98>>, <<97>> >>
    /\ IdsOf(cachedNodeStats) = <<1, 2>>

\* C6: after a successful refresh with an active sort column, two records with
\* equal keys stand in the order their peers have in the registry as acquired,
\* under Ascending and under Descending.
C6_Stability ==
    (RefreshedNow /\ sortColumn \in {Address, Subversion, Ping}) =>
        \A i, j \in 1..Len(acquired) :
            (i < j /\ KeyEqual(sortColumn, acquired[i], acquired[j])) =>
                /\ RowsOf(cachedNodeStats, acquired[i].nodeid) # {}
                /\ RowsOf(cachedNodeStats, acquired[j].nodeid) # {}
                /\ \A ri \in RowsOf(cachedNodeStats, acquired[i].nodeid),
                      rj \in RowsOf(cachedNodeStats, acquired[j].nodeid) : ri < rj

\* C6 witness: two peers tied on ping time refreshed by Ping, descending.
C6_Witness ==
    /\ RefreshedNow
    /\ sortColumn = Ping
    /\ sortOrder = DescendingOrder
    /\ Len(acquired) = 2
    /\ acquired[1].dPingTime = acquired[2].dPingTime
    /\ IdsOf(cachedNodeStats) = IdsOf(acquired)

\* C7: after a successful refresh with sortColumn = -1, records equals the
\* registry as acquired element by element and the i-th peer's id maps to row i
\* (counted from 0).
C7_UnsortedKeepsRegistryOrder ==
    (RefreshedNow /\ sortColumn = Unsorted) =>
        /\ Len(cachedNodeStats) = Len(acquired)
        /\ \A i \in 1..Len(acquired) :
             /\ ElemAt(cachedNodeStats, i - 1) = acquired[i]
             /\ getRowByNodeId(acquired[i].nodeid) = i - 1

\* C7 witness: an unsorted refresh of two peers that every column would reorder.
C7_Witness ==
    /\ RefreshedNow
    /\ sortColumn = Unsorted
    /\ Len(acquired) = 2
    /\ KeyLess(Address, acquired[2], acquired[1])
    /\ cachedNodeStats = acquired
    /\ getRowByNodeId(acquired[2].nodeid) = 1

\* C8: whenever a reader can run, getRowByNodeId returns -1 for every node id
\* that no cached record carries, and a read of such an id has returned -1.
C8_AbsentIdNotFound ==
    ReaderCanRun =>
        /\ \A x \in NodeIds \ NodeIdsOf(cachedNodeStats) : getRowByNodeId(x) = NotFound
        /\ (obs.op = "getRowByNodeId" /\ obs.arg \notin NodeIdsOf(cachedNodeStats)) =>
               obs.res = NotFound

\* C8 witness: after a successful refresh of a non-empty registry, a read of an
\* id that is neither cached nor connected returned -1.
C8_Witness ==
    /\ RefreshedNow
    /\ obs.op = "getRowByNodeId"
    /\ obs.arg = 1
    /\ obs.res = NotFound
    /\ NodeIdsOf(cachedNodeStats) = {2, 3}

\* C9: index(idx) is null for every idx < 0 and every idx >= size(), is the
\* record stored at idx for 0 <= idx < size(), and never reads outside the list;
\* a read made by the view returned accordingly.
C9_BoundsSafety ==
    /\ \A idx \in RowArgs :
         /\ (idx < 0 \/ idx >= size) => PrivIndex(idx) = NullPtr
         /\ (idx >= 0 /\ idx < size) => PrivIndex(idx) = cachedNodeStats[idx + 1]
         /\ PrivIndex(idx) # OutOfRange
    /\ obs.op = "index" =>
         /\ obs.res # OutOfRange
         /\ (obs.res = NullPtr) <=> (obs.arg < 0 \/ obs.arg >= size)

\* C9 witness: the view asked for row size() of a non-empty cache and got null.
C9_Witness ==
    /\ obs.op = "index"
    /\ size = 2
    /\ obs.arg = size
    /\ obs.res = NullPtr

\* C10: in every snapshot a reader can see, no two cached records share a node
\* id and the index has one entry per record.
C10_UniqueNodeIds ==
    ReaderCanRun =>
        /\ \A i, j \in 1..Len(cachedNodeStats) :
             i # j => cachedNodeStats[i].nodeid # cachedNodeStats[j].nodeid
        /\ Cardinality(DOMAIN mapNodeRows) = size

\* C10 witness: a two-record snapshot with two index entries.
C10_Witness ==
    /\ pc = "idle"
    /\ size = 2
    /\ Cardinality(DOMAIN mapNodeRows) = 2
    /\ cachedNodeStats[1].addrName = cachedNodeStats[2].addrName

\* ------------------------------------------------------------ C11 .. C20
\* A step that changes the records or the index.
CacheMutated ==
    cachedNodeStats' # cachedNodeStats \/ mapNodeRows' # mapNodeRows
PolicyChanged == sortColumn' # sortColumn \/ sortOrder' # sortOrder

\* C11: sort(column, order) stores the policy in the step that enters
\* refresh(); that refresh runs once (line 205 is entered only from the event
\* loop, line 207 only leaves to it); when it acquires cs_vNodes it takes the
\* registry as it is at that moment and the records it returns with are that
\* registry under the stored policy.
C11_SortStoresThenRefreshesOnce ==
    [][/\ PolicyChanged =>
            /\ pc = "idle" /\ pc' = "L205"
            /\ entryState'.column = sortColumn' /\ entryState'.order = sortOrder'
            /\ ~CacheMutated
       /\ (pc' = "L205" /\ pc # "L205") => pc = "idle"
       /\ (pc = "L207" /\ pc' # "L207") => pc' = "idle"
       /\ (pc = "L52" /\ pc' = "L59") => (acquired' = vNodes /\ UNCHANGED cacheVars)
       /\ (pc # "L207" /\ pc' = "L207" /\ lockNodes') =>
            /\ IsSnapshotUnder(cachedNodeStats', vNodes, sortColumn', sortOrder')
            /\ vNodes = acquired
      ]_vars

\* C11 witness: a refresh entered from sort() has just acquired the registry:
\* the records still cached are out of order under the stored policy and hold
\* other peers than the registry now does.
C11_Witness ==
    /\ pc = "L59"
    /\ sortColumn = Ping
    /\ Len(cachedNodeStats) = 2
    /\ ~OrderedBy(cachedNodeStats, sortColumn, sortOrder)
    /\ acquired = vNodes
    /\ NodeIdsOf(vNodes) # NodeIdsOf(cachedNodeStats)

\* C12: records and index change only in steps taken after
\* layoutAboutToBeChanged and before layoutChanged was emitted, and whenever
\* the GUI thread is back in its event loop layoutChanged was the last signal.
C12_MutationsBracketed ==
    /\ [][CacheMutated =>
            (emitted = "layoutAboutToBeChanged" /\ emitted' = "layoutAboutToBeChanged")]_vars
    /\ [](pc = "idle" => emitted = "layoutChanged")

\* C12 witness: half-way through the index rebuild, inside the bracket.
C12_Witness ==
    /\ pc = "L78"
    /\ emitted = "layoutAboutToBeChanged"
    /\ Len(cachedNodeStats) = 2
    /\ it = 1
    /\ Cardinality(DOMAIN mapNodeRows) = 1

\* The steps of refreshPeers that sort the records and rebuild the index are
\* about to run or running.
SortingOrIndexing ==
    \/ pc = "L63" /\ it >= Len(vNodes)
    \/ pc \in {"L76", "L78"}

\* C13 as claimed: cs_vNodes is released before the sort and the index
\* rebuild, so a registry writer can take it during those steps.
C13_LockReleasedBeforeSort ==
    SortingOrIndexing => (csOwner # "gui" /\ ENABLED NetLock)

\* The records the registry and the cache hold now.
AllNodes == Range(vNodes) \cup Range(cachedNodeStats)

\* C14: wherever refreshPeers is at its copy loop or has just sorted, for
\* every column and every pair of the records held the Descending comparator
\* is the Ascending one with operands swapped, and in both directions the
\* comparator is irreflexive, asymmetric, false both ways on equal keys and
\* true on a smaller key.
C14_ComparatorStrict ==
    pc \in {"L63", "L76"} =>
        \A column \in Columns, a \in AllNodes, b \in AllNodes :
            /\ NodeLessThan(column, DescendingOrder, a, b)
                 = NodeLessThan(column, AscendingOrder, b, a)
            /\ \A order \in SortOrders :
                 /\ ~NodeLessThan(column, order, a, a)
                 /\ ~(NodeLessThan(column, order, a, b) /\ NodeLessThan(column, order, b, a))
                 /\ KeyEqual(column, a, b) =>
                      (~NodeLessThan(column, order, a, b) /\ ~NodeLessThan(column, order, b, a))
                 /\ (order = AscendingOrder /\ KeyLess(column, a, b)) =>
                      NodeLessThan(column, order, a, b)

\* C14 witness: the sort has just applied the Descending comparator to two
\* records with equal subversions and left them in place.
C14_Witness ==
    /\ pc = "L76"
    /\ sortColumn = Subversion
    /\ sortOrder = DescendingOrder
    /\ Len(cachedNodeStats) = 2
    /\ KeyEqual(Subversion, cachedNodeStats[1], cachedNodeStats[2])
    /\ ~NodeLessThan(sortColumn, sortOrder, cachedNodeStats[2], cachedNodeStats[1])
    /\ cachedNodeStats = vNodes

\* C15 as claimed: in every observable state before the first successful
\* refresh has completed, records is empty and sortColumn is None.
C15_StaleHasNoSort ==
    (ReaderCanRun /\ ~populated) =>
        (cachedNodeStats = <<>> /\ sortColumn = Unsorted)

\* C15 amended: in every observable state before the first successful refresh
\* has completed, records and index are empty (sortColumn is whatever sort()
\* last stored); a skipped refreshPeers changes nothing; records become
\* non-empty only in a step of a refreshPeers that holds cs_vNodes.
C15_StaleIsEmpty ==
    /\ []((ReaderCanRun /\ ~populated) =>
            (cachedNodeStats = <<>> /\ mapNodeRows = EmptyMap))
    /\ [][(pc = "L52" /\ pc' = "L207") => UNCHANGED <<cacheVars, populated>>]_vars
    /\ [][(cachedNodeStats = <<>> /\ cachedNodeStats' # <<>>) =>
            (lockNodes /\ csOwner = "gui")]_vars
    /\ [][populated' # populated => (lockNodes /\ pc' = "L207" /\ populated')]_vars

\* C15 witness: no refresh has succeeded yet, the registry has peers, and
\* sort() has stored a policy whose refresh was skipped.
C15_Witness ==
    /\ pc = "idle"
    /\ ~populated
    /\ sortColumn = Ping
    /\ sortOrder = DescendingOrder
    /\ Len(vNodes) = 2
    /\ cachedNodeStats = <<>>

\* C16: whenever a reader can run, records and index hold the values and ids
\* copied when cs_vNodes was last acquired, whatever the registry holds now,
\* and the view's reads return those; a step that changes the registry leaves
\* records, index and the last read as they were.
C16_SnapshotDecoupled ==
    /\ [](ReaderCanRun =>
            /\ IsPermutation(cachedNodeStats, acquired)
            /\ DOMAIN mapNodeRows = NodeIdsOf(acquired)
            /\ (obs.op = "size") => obs.res = Len(acquired)
            /\ (obs.op = "index" /\ obs.res # NullPtr) => obs.res \in Range(acquired)
            /\ (obs.op = "getRowByNodeId") =>
                 ((obs.res # NotFound) <=> (obs.arg \in NodeIdsOf(acquired))))
    /\ [][vNodes' # vNodes => UNCHANGED <<cachedNodeStats, mapNodeRows, obs>>]_vars

\* C16 witness: the view reads a record of a peer that is still connected but
\* whose stats the registry has changed since the last refresh.
C16_Witness ==
    /\ pc = "idle"
    /\ obs.op = "index"
    /\ obs.res # NullPtr
    /\ obs.res \in Range(acquired)
    /\ obs.res \notin Range(vNodes)
    /\ obs.res.nodeid \in NodeIdsOf(vNodes)

\* C17: a TRY_LOCK executed while cs_vNodes is free acquires it and takes the
\* registry as it is then, whatever was skipped before; the refresh returns
\* with that registry under the active policy and its index; and if TRY_LOCK
\* is executed on a free lock again and again, a refreshed snapshot is
\* returned again and again.
C17_SkipRecovered ==
    /\ [][(pc = "L52" /\ pc' # "L52" /\ csOwner = "none") =>
            (pc' = "L59" /\ lockNodes' /\ csOwner' = "gui" /\ acquired' = vNodes)]_vars
    /\ [](RefreshedNow =>
            /\ IsSnapshotUnder(cachedNodeStats, acquired, sortColumn, sortOrder)
            /\ IsIndexOf(mapNodeRows, cachedNodeStats))
    /\ ([]<><<TryLock /\ csOwner = "none">>_vars => []<>RefreshedNow)

\* C17 witness: the first refresh to get the lock runs after the constructor's
\* refresh was skipped and sort() was called, and is about to return with the
\* two registry peers reordered by Address.
C17_Witness ==
    /\ pc = "L78"
    /\ ~populated
    /\ sortColumn = Address
    /\ it = 2
    /\ Len(cachedNodeStats) = 2
    /\ cachedNodeStats # vNodes
    /\ IsSnapshotUnder(cachedNodeStats, vNodes, sortColumn, sortOrder)
    /\ IsIndexOf(mapNodeRows, cachedNodeStats)

\* C18: TRY_LOCK can always be executed, whoever holds cs_vNodes; it is
\* executed once per refresh (entered only from line 205, left only to line 59
\* or to the return); on contention it returns without the lock and leaves the
\* holder alone; and every refresh gets back to the event loop.
C18_RefreshTerminates ==
    /\ [](pc = "L52" => ENABLED TryLock)
    /\ [][(pc = "L52" /\ pc' # "L52") => pc' \in {"L59", "L207"}]_vars
    /\ [][(pc' = "L52" /\ pc # "L52") => pc = "L205"]_vars
    /\ [][(pc = "L52" /\ pc' # "L52" /\ csOwner # "none") =>
            (pc' = "L207" /\ ~lockNodes' /\ UNCHANGED csOwner)]_vars
    /\ ((pc # "idle") ~> (pc = "idle"))

\* C18 witness: a refresh of a populated cache has returned skipped while the
\* network thread still holds the lock.
C18_Witness ==
    /\ SkippedNow
    /\ populated
    /\ csOwner = "net"
    /\ emitted = "layoutAboutToBeChanged"

\* No call of refreshPeers is running: before it is entered or after it returned.
NoRefreshPeersRunning == pc \in {"idle", "L205", "L207"}

\* C19: whenever refreshPeers is not running (it has returned skipped or
\* refreshed, or has not been entered), the GUI thread does not own cs_vNodes,
\* and a network thread asking for a lock nobody else holds gets it.
C19_LockNotKeptAcrossCalls ==
    NoRefreshPeersRunning =>
        /\ csOwner # "gui"
        /\ (csOwner = "none") => ENABLED NetLock

\* C19 witness: after a refresh that held the lock went back to the event
\* loop, the network thread took the lock and changed the registry.
C19_Witness ==
    /\ pc = "idle"
    /\ populated
    /\ csOwner = "net"
    /\ Len(acquired) = 2
    /\ vNodes # acquired

\* The records are in the order of the stored (sortColumn, sortOrder).
OrderedByPolicy ==
    sortColumn >= 0 => OrderedBy(cachedNodeStats, sortColumn, sortOrder)

\* C20 as stated: whenever no refresh is in flight the records are ordered by
\* the stored (sortColumn, sortOrder).
C20_IdleOrderedByPolicy == (pc = "idle") => OrderedByPolicy

\* C20 amended: a refresh that acquired the lock returns records ordered by
\* the stored (sortColumn, sortOrder); outside refreshPeers that order is kept
\* for as long as the policy is not changed; and a refresh that is skipped,
\* the one of sort() included, leaves the records in the order they had.
C20_OrderedAfterSuccessfulRefresh ==
    /\ [](RefreshedNow => OrderedByPolicy)
    /\ [][(/\ pc \in {"idle", "L205", "L52", "L207"}
           /\ pc' \in {"idle", "L205", "L52", "L207"}
           /\ OrderedByPolicy
           /\ ~PolicyChanged) => OrderedByPolicy']_vars
    /\ [][(pc = "L52" /\ pc' = "L207") => cachedNodeStats' = cachedNodeStats]_vars

\* C20 witness: sort() has returned after a skipped refresh, and recordAt(0)
\* shows the first of two records that are not in the order just stored.
C20_Witness ==
    /\ pc = "idle"
    /\ populated
    /\ sortColumn >= 0
    /\ Len(cachedNodeStats) = 2
    /\ ~OrderedBy(cachedNodeStats, sortColumn, sortOrder)
    /\ obs.op = "index"
    /\ obs.arg = 0
    /\ obs.res = cachedNodeStats[1]

====
